---- MODULE Spec2Model ----
(***************************************************************************)
(* Model of the Motoko VS Code extension's launch logic.                   *)
(*                                                                         *)
(* Two variants of the extension exist in the source:                      *)
(*   "lean"      src/src/extension.ts   (activate, dfx _language-service)  *)
(*   "extended"  src/unnamed/part_000   (startServer command, IDL staging, *)
(*                                       vessel package sources)           *)
(*                                                                         *)
(* A JavaScript string is modelled as a sequence of symbols.  A symbol is  *)
(* either the space character " " or a stretch of non-space characters     *)
(* (so "--a --b" is <<"--a", " ", "--b">>, and the empty string is <<>>).  *)
(* An argument list is a sequence of such strings.                         *)
(***************************************************************************)
EXTENDS Integers, Sequences, FiniteSets, TLC

\* ------------------------------------------------------------------ bounds
\* number of start actions (activation plus motoko.startService invocations)
MaxInvocations == 3
\* largest number of canisters in dfx.json
MaxCanisters == 3
\* largest number of entries in canisters/canister_manifest.json
MaxEntries == 2
\* longest standaloneArguments string, in symbols
MaxArgLen == 4

\* ----------------------------------------------------------------- strings
Str(s) == IF s = "" THEN <<>> ELSE <<s>>

SP == " "

\* passing the string on whole, as one argument, instead of splitting it
split_whole(s, sep) == << s >>

\* String.prototype.split(sep) for a one-character separator:
\* "".split(" ") is [""], "a  b".split(" ") is ["a", "", "b"].
RECURSIVE split(_, _)
split(s, sep) ==
  IF s = <<>> THEN << <<>> >>
  ELSE LET rest == split(Tail(s), sep) IN
       IF Head(s) = sep THEN << <<>> >> \o rest
       ELSE << <<Head(s)>> \o Head(rest) >> \o Tail(rest)

\* String.prototype.slice(n): drops the first n symbols
slice(s, n) == IF Len(s) <= n THEN <<>> ELSE SubSeq(s, n + 1, Len(s))

\* path.join(dir, name)
pathJoin(dir, name) == dir \o <<"/">> \o name

\* optional values (undefined / null versus a value)
Undefined == [kind |-> "undefined"]
Some(v) == [kind |-> "value", value |-> v]

Null == [kind |-> "null"]

\* --------------------------------------------------------------- constants
\* the workspace folder wsf[0].uri.fsPath
WorkspacePath == Str("/ws")
\* path.join(wsf[0].uri.fsPath, ".vscode", "idl")
IdlPath == pathJoin(pathJoin(WorkspacePath, Str(".vscode")), Str("idl"))

\* canisters a dfx.json may declare, in file order
AllCanisters ==
  << [name |-> Str("main"),   main |-> Str("src/main.mo")],
     [name |-> Str("other"),  main |-> Str("src/other.mo")],
     [name |-> Str("third"),  main |-> Str("src/third.mo")],
     [name |-> Str("fourth"), main |-> Str("src/fourth.mo")] >>

\* entries a canister_manifest.json may hold, in file order
AllEntries ==
  << [alias |-> Str("a1"), canister_id |-> <<"i", "c", ":", "AAA">>, candid_path |-> Str("a1.did")],
     [alias |-> Str("a2"), canister_id |-> <<"i", "c", ":", "BBB">>, candid_path |-> Str("a2.did")],
     [alias |-> Str("a3"), canister_id |-> <<"i", "c", ":", "CCC">>, candid_path |-> Str("a3.did")],
     [alias |-> Str("a4"), canister_id |-> <<"i", "c", ":", "DDD">>, candid_path |-> Str("a4.did")] >>

\* the contents dfx.json can have
DfxJsonFiles ==
  { [kind |-> k, canisters |-> <<>>] :
      k \in {"missing", "unreadable", "malformed", "null", "noCanisters"} }
  \cup { [kind |-> "manifest", canisters |-> SubSeq(AllCanisters, 1, n)] :
           n \in 0..MaxCanisters }

\* user settings of the "motoko" namespace, read once at module load
Configs ==
  { [canister |-> c, standaloneBinary |-> Str("mo-ide"),
     standaloneArguments |-> a, dfx |-> Str("dfx")] :
      c \in {<<>>, Str("main"), Str("ghost")},
      a \in {<<>>, <<"--a", SP, "--b">>, <<"\"x", SP, "y\"">>} }

\* outcomes of which.sync(dfx) and fs.existsSync(dfx)
Lookups == {"found", "existsOnly", "notFound"}
\* the path which.sync resolves to
WhichPath == Str("/usr/bin/dfx")

NoIdlEnv == [dir |-> "unused", manifest |-> "unused", entries |-> <<>>, candid |-> {}]

\* what interface staging can meet on disk: the scratch directory (it exists,
\* mkdirSync can create it, or mkdirSync throws), canister_manifest.json, and
\* which of the candid files the manifest names exist
IdlEnvs ==
  { [dir |-> "denied", manifest |-> "unused", entries |-> <<>>, candid |-> {}] }
  \cup { [dir |-> d, manifest |-> k, entries |-> <<>>, candid |-> {}] :
           d \in {"exists", "creatable"},
           k \in {"missing", "malformed", "noCanisters"} }
  \cup UNION { { [dir |-> d, manifest |-> "manifest",
                  entries |-> SubSeq(AllEntries, 1, n), candid |-> c] :
                   d \in {"exists", "creatable"},
                   c \in SUBSET { AllEntries[i].candid_path : i \in 1..n } } :
               n \in 0..MaxEntries }

NoVessel == [json |-> FALSE, cmd |-> "unused", out |-> <<>>]

\* vessel.json present or not, and what `vessel sources` does
VesselEnvs ==
  { [json |-> FALSE, cmd |-> "unused", out |-> <<>>],
    [json |-> TRUE, cmd |-> "notInstalled", out |-> <<>>],
    [json |-> TRUE, cmd |-> "nonzero", out |-> <<>>],
    [json |-> TRUE, cmd |-> "ok", out |-> <<"--package", SP, "base", SP, "/pkg/base">>] }

\* window.activeTextEditor?.document?.fileName
Documents == {Undefined, Some(Str("/tmp/foo.mo"))}

\* what the user can answer to the entry-point input box
EntryPoints == {Undefined, Some(<<>>), Some(Str("/tmp/foo.mo"))}

\* ------------------------------------------------------------------- state
VARIABLES
  variant,        \* which of the two source files is running
  config,         \* const config = workspace.getConfiguration("motoko")
  wsf,            \* workspace.workspaceFolders is defined
  client,         \* let client: LanguageClient (0 = undefined, else index)
  clients,        \* every LanguageClient constructed so far: [stops]
  res,            \* one record per run of the start action (history)
  deactivated     \* deactivate() has run

vars == <<variant, config, wsf, client, clients, res, deactivated>>

\* --------------------------------------------------------- history records
\* the record of one run of the start action; its fields are written by the
\* model of the code as the calls happen
NewRes(dfxJson) ==
  [ dfxJsonSeen  |-> dfxJson,    \* dfx.json when the start action ran
    dfxConfig    |-> Null,       \* what isDfxProject() returned
    stoppedPrior |-> 0,          \* the client stop() was called on first
    launchDfx    |-> FALSE,      \* launchDfxProject was called
    quickPicks   |-> 0,          \* calls of window.showQuickPick
    inputBoxes   |-> 0,          \* calls of window.showInputBox
    pending      |-> "none",     \* the prompt whose promise is unresolved
    defaultValue |-> Undefined,  \* value offered by the input box
    answer       |-> [kind |-> "none"],
    starts       |-> <<>>,       \* arguments of the calls of start(canister)
    launched     |-> <<>>,       \* clients made by launchClient
    launchSpecs  |-> <<>>,       \* serverOptions.run of each launchClient call
    errorMessages |-> 0,         \* calls of window.showErrorMessage
    threw        |-> FALSE,      \* an exception left the start action
    rejected     |-> FALSE,      \* an exception left a then-callback
    lookup       |-> "unused",   \* what getDfx met
    idlEnv       |-> NoIdlEnv,   \* what copyIDLFiles met
    idlFiles     |-> Null,       \* what copyIDLFiles returned
    copied       |-> <<>>,       \* the copyFileSync calls: [from, file]
    vessel       |-> NoVessel,   \* what vesselArgs met
    pkgArgs      |-> <<>> ]      \* what vesselArgs returned

\* the mutable state a handler works on, with the current run's record r,
\* the value returned (ret) and whether an exception is propagating (threw)
Machine(r) ==
  [ client |-> client, clients |-> clients, r |-> r, threw |-> FALSE,
    ret |-> Null ]

\* ----------------------------------------------------------- the program
\* isDfxProject() whose catch block returns an empty object for a file that
\* is not JSON
isDfxProject_emptyObjectOnParseError(dfxJson) ==
  IF ~wsf THEN Null
  ELSE IF dfxJson.kind \in {"missing", "unreadable"} THEN Null
  ELSE IF dfxJson.kind = "null" THEN Null
  ELSE [kind |-> "object", hasCanisters |-> dfxJson.kind = "manifest",
        canisters |-> dfxJson.canisters]

\* isDfxProject(): null without a workspace folder, when readFileSync or
\* JSON.parse throws, or when the file holds the JSON value null
isDfxProject(dfxJson) ==
  IF ~wsf THEN Null
  ELSE IF dfxJson.kind \in {"missing", "unreadable", "malformed"} THEN Null
  ELSE IF dfxJson.kind = "null" THEN Null
  ELSE [kind |-> "object", hasCanisters |-> dfxJson.kind = "manifest",
        canisters |-> dfxJson.canisters]

\* Object.keys(dfxConfig.canisters)
keys(canisters) == [i \in 1..Len(canisters) |-> canisters[i].name]

\* launchClient(serverOptions): client = new LanguageClient(...); client.start()
launchClient(m, serverOptions) ==
  LET id == Len(m.clients) + 1 IN
  [m EXCEPT !.clients = Append(@, [stops |-> 0]),
            !.client = id,
            !.r.launched = Append(@, id),
            !.r.launchSpecs = Append(@, serverOptions.run)]

\* client.stop() on client number id
stop(m, id) == [m EXCEPT !.clients[id].stops = @ + 1]

\* getDfx() that shows the error message but returns the configured path
\* instead of throwing
getDfx_noThrow(m, lookup) ==
  LET m1 == [m EXCEPT !.r.lookup = lookup] IN
  IF lookup = "found" THEN [m1 EXCEPT !.ret = WhichPath]
  ELSE IF lookup = "notFound"
       THEN [m1 EXCEPT !.r.errorMessages = @ + 1, !.ret = config.dfx]
       ELSE [m1 EXCEPT !.ret = config.dfx]

\* getDfx() of the lean variant
getDfx(m, lookup) ==
  LET m1 == [m EXCEPT !.r.lookup = lookup] IN
  IF lookup = "found" THEN [m1 EXCEPT !.ret = WhichPath]
  ELSE IF lookup = "notFound"
       THEN [m1 EXCEPT !.r.errorMessages = @ + 1, !.threw = TRUE]
       ELSE [m1 EXCEPT !.ret = config.dfx]

\* getOrCreateIDLPath()
getOrCreateIDLPath(m, env) ==
  IF ~wsf THEN [m EXCEPT !.ret = Null]
  ELSE IF env.dir = "exists" THEN [m EXCEPT !.ret = Some(IdlPath)]
  ELSE IF env.dir = "creatable" THEN [m EXCEPT !.ret = Some(IdlPath)]
  ELSE [m EXCEPT !.ret = Null]

\* getDfxManifest(): null when the file is missing or is not JSON
getDfxManifest(env) ==
  IF ~wsf THEN Null
  ELSE IF env.manifest \in {"missing", "malformed"} THEN Null
  ELSE [kind |-> "object", hasCanisters |-> env.manifest = "manifest",
        canisters |-> env.entries]

\* fs.copyFileSync(from, file), when the source file exists
copyFileSync(m, from, file) ==
  [m EXCEPT !.r.copied = Append(@, [from |-> from, file |-> file])]

\* the same loop naming each staged file by the whole canister_id
RECURSIVE copyLoop_fullId(_, _, _, _)
copyLoop_fullId(m, entries, candid, canisterMappings) ==
  IF entries = <<>>
  THEN [m EXCEPT !.ret = [kind |-> "value", idlPath |-> IdlPath,
                          canisterMappings |-> canisterMappings]]
  ELSE LET info == Head(entries)
           mappings == Append(canisterMappings,
                              [alias |-> info.alias, id |-> info.canister_id])
       IN IF info.candid_path \notin candid
          THEN [m EXCEPT !.threw = TRUE]
          ELSE copyLoop_fullId(
                 copyFileSync(m, info.candid_path,
                              pathJoin(IdlPath, info.canister_id \o <<".did">>)),
                 Tail(entries), candid, mappings)

\* the for loop of copyIDLFiles over Object.entries(canisterManifest.canisters)
RECURSIVE copyLoop(_, _, _, _)
copyLoop(m, entries, candid, canisterMappings) ==
  IF entries = <<>>
  THEN [m EXCEPT !.ret = [kind |-> "value", idlPath |-> IdlPath,
                          canisterMappings |-> canisterMappings]]
  ELSE LET info == Head(entries)
           canisterId == slice(info.canister_id, 3)
           mappings == Append(canisterMappings,
                              [alias |-> info.alias, id |-> info.canister_id])
       IN IF info.candid_path \notin candid
          THEN [m EXCEPT !.threw = TRUE]
          ELSE copyLoop(copyFileSync(m, info.candid_path,
                                     pathJoin(IdlPath, canisterId \o <<".did">>)),
                        Tail(entries), candid, mappings)

\* copyIDLFiles()
copyIDLFiles(m, env) ==
  LET m0 == [m EXCEPT !.r.idlEnv = env]
      m1 == getOrCreateIDLPath(m0, env)
      canisterManifest == getDfxManifest(env)
  IN IF m1.ret.kind = "null" THEN m1
     ELSE IF canisterManifest.kind = "null" THEN [m1 EXCEPT !.ret = Null]
     ELSE IF ~canisterManifest.hasCanisters THEN [m1 EXCEPT !.threw = TRUE]
     ELSE copyLoop(m1, canisterManifest.canisters, env.candid, <<>>)

\* idlFiles.canisterMappings.forEach(...) pushing three arguments per mapping
RECURSIVE aliasArgs(_)
aliasArgs(canisterMappings) ==
  IF canisterMappings = <<>> THEN <<>>
  ELSE << Str("--actor-alias"), Head(canisterMappings).alias,
          Head(canisterMappings).id >> \o aliasArgs(Tail(canisterMappings))

\* the idlArgs array built in start() from what copyIDLFiles returned
idlArgs(idlFiles) ==
  IF idlFiles.kind = "null" THEN <<>>
  ELSE << Str("--actor-idl"), idlFiles.idlPath >>
       \o aliasArgs(idlFiles.canisterMappings)

\* dfxConfig.canisters[canister]: the entry of that name, or undefined
canisterEntry(dfxConfig, canister) ==
  LET hits == { i \in 1..Len(dfxConfig.canisters) :
                  dfxConfig.canisters[i].name = canister }
  IN IF hits = {} THEN Undefined
     ELSE Some(dfxConfig.canisters[CHOOSE i \in hits : TRUE])

\* start(canister) of the lean variant's launchDfxProject
startLean(m, canister, env) ==
  LET g == getDfx(m, env.lookup) IN
  IF g.threw THEN g
  ELSE LET serverCommand ==
             [command |-> g.ret,
              args |-> << Str("_language-service"), canister >>]
       IN launchClient(g, [run |-> serverCommand, debug |-> serverCommand])

\* start(canister) that also appends the configured extra arguments
startExtended_appendsExtras(m, dfxConfig, canister, env) ==
  LET c == copyIDLFiles(m, env.idl) IN
  IF c.threw THEN c
  ELSE LET c1 == [c EXCEPT !.r.idlFiles = c.ret]
           entry == canisterEntry(dfxConfig, canister)
       IN IF entry.kind = "undefined" THEN [c1 EXCEPT !.threw = TRUE]
          ELSE LET args == (<< Str("--canister-main"), entry.value.main >>
                             \o idlArgs(c.ret))
                            \o split(config.standaloneArguments, SP)
                   serverCommand ==
                     [command |-> config.standaloneBinary, args |-> args]
               IN launchClient(c1, [run |-> serverCommand,
                                    debug |-> serverCommand])

\* start(canister) of the extended variant's launchDfxProject
startExtended(m, dfxConfig, canister, env) ==
  LET c == copyIDLFiles(m, env.idl) IN
  IF c.threw THEN c
  ELSE LET c1 == [c EXCEPT !.r.idlFiles = c.ret]
           entry == canisterEntry(dfxConfig, canister)
       IN IF entry.kind = "undefined" THEN [c1 EXCEPT !.threw = TRUE]
          ELSE LET args == << Str("--canister-main"), entry.value.main >>
                             \o idlArgs(c.ret)
                   serverCommand ==
                     [command |-> config.standaloneBinary, args |-> args]
               IN launchClient(c1, [run |-> serverCommand,
                                    debug |-> serverCommand])

\* const start = (canister) => ...
start(m, dfxConfig, canister, env) ==
  LET m1 == [m EXCEPT !.r.starts = Append(@, canister)] IN
  IF variant = "lean" THEN startLean(m1, canister, env)
  ELSE startExtended(m1, dfxConfig, canister, env)

\* window.showQuickPick(canisters, ...): the promise stays pending
showQuickPick(m) ==
  [m EXCEPT !.r.quickPicks = @ + 1, !.r.pending = "quickPick"]

\* window.showInputBox({prompt, value}): the promise stays pending
showInputBox(m, value) ==
  [m EXCEPT !.r.inputBoxes = @ + 1, !.r.pending = "inputBox",
            !.r.defaultValue = value]

\* launchDfxProject without the canisters.length === 1 branch
launchDfxProject_noSingleBranch(m, dfxConfig, env) ==
  LET m1 == [m EXCEPT !.r.launchDfx = TRUE]
      canister == config.canister
  IN IF ~dfxConfig.hasCanisters THEN [m1 EXCEPT !.threw = TRUE]
     ELSE IF canister # <<>> THEN start(m1, dfxConfig, canister, env)
          ELSE showQuickPick(m1)

\* launchDfxProject that honours the configured canister only when the
\* manifest has a single target
launchDfxProject_defaultOnlyWhenSingle(m, dfxConfig, env) ==
  LET m1 == [m EXCEPT !.r.launchDfx = TRUE]
      canister == config.canister
  IN IF ~dfxConfig.hasCanisters THEN [m1 EXCEPT !.threw = TRUE]
     ELSE LET canisters == keys(dfxConfig.canisters) IN
          IF canister # <<>> /\ Len(canisters) = 1
          THEN start(m1, dfxConfig, canister, env)
          ELSE IF Len(canisters) = 1
               THEN start(m1, dfxConfig, canisters[1], env)
               ELSE showQuickPick(m1)

\* launchDfxProject(dfxConfig)
launchDfxProject(m, dfxConfig, env) ==
  LET m1 == [m EXCEPT !.r.launchDfx = TRUE]
      canister == config.canister
  IN IF ~dfxConfig.hasCanisters THEN [m1 EXCEPT !.threw = TRUE]
     ELSE LET canisters == keys(dfxConfig.canisters) IN
          IF canister # <<>> THEN start(m1, dfxConfig, canister, env)
          ELSE IF Len(canisters) = 1
               THEN start(m1, dfxConfig, canisters[1], env)
               ELSE showQuickPick(m1)

\* the same body keeping the manifest of the first run instead of reading
\* dfx.json again
resolve_cachesManifest(m, env) ==
  LET dfxConfig == IF res = <<>> THEN isDfxProject(env.dfxJson)
                   ELSE res[1].dfxConfig
      m1 == [m EXCEPT !.r.dfxConfig = dfxConfig]
  IN IF dfxConfig.kind # "null" THEN launchDfxProject(m1, dfxConfig, env)
     ELSE showInputBox(m1, env.currentDocument)

\* the body shared by activate (lean) and startServer (extended) after the
\* optional stop: detect the project, then resolve and launch
resolve(m, env) ==
  LET dfxConfig == isDfxProject(env.dfxJson)
      m1 == [m EXCEPT !.r.dfxConfig = dfxConfig]
  IN IF dfxConfig.kind # "null" THEN launchDfxProject(m1, dfxConfig, env)
     ELSE showInputBox(m1, env.currentDocument)

\* startServer() of the extended variant
startServer(m, env) ==
  LET m1 == IF m.client # 0
            THEN [stop(m, m.client) EXCEPT !.r.stoppedPrior = m.client]
            ELSE m
  IN resolve(m1, env)

\* activate(context): the lean variant resolves at once; the extended one
\* registers motoko.startService and calls startServer()
activate(m, env) ==
  IF variant = "lean" THEN resolve(m, env) ELSE startServer(m, env)

\* vesselArgs() that splits whatever the command printed, whether or not it
\* ran
vesselArgs_ignoresFailure(env) ==
  IF ~wsf THEN <<>>
  ELSE IF ~env.json THEN <<>>
  ELSE split(env.out, SP)

\* vesselArgs()
vesselArgs(env) ==
  IF ~wsf THEN <<>>
  ELSE IF ~env.json THEN <<>>
  ELSE IF env.cmd # "ok" THEN <<>>
  ELSE split(env.out, SP)

\* the then-callback of showInputBox with the extra arguments put before the
\* package-source arguments
onEntryPoint_extrasFirst(m, entryPoint, env) ==
  LET m1 == [m EXCEPT !.r.pending = "none", !.r.answer = entryPoint] IN
  IF entryPoint.kind = "undefined" \/ entryPoint.value = <<>> THEN m1
  ELSE LET pkg == IF variant = "lean" THEN <<>> ELSE vesselArgs(env)
           serverCommand ==
             [command |-> config.standaloneBinary,
              args |-> (<< Str("--canister-main"), entryPoint.value >>
                        \o split(config.standaloneArguments, SP))
                       \o pkg]
       IN launchClient([m1 EXCEPT !.r.vessel = env, !.r.pkgArgs = pkg],
                       [run |-> serverCommand, debug |-> serverCommand])

\* the then-callback of showInputBox testing entryPoint !== undefined, so
\* that an empty answer is launched too
onEntryPoint_launchesEmpty(m, entryPoint, env) ==
  LET m1 == [m EXCEPT !.r.pending = "none", !.r.answer = entryPoint] IN
  IF entryPoint.kind = "undefined" THEN m1
  ELSE LET pkg == IF variant = "lean" THEN <<>> ELSE vesselArgs(env)
           serverCommand ==
             [command |-> config.standaloneBinary,
              args |-> (<< Str("--canister-main"), entryPoint.value >> \o pkg)
                       \o split(config.standaloneArguments, SP)]
       IN launchClient([m1 EXCEPT !.r.vessel = env, !.r.pkgArgs = pkg],
                       [run |-> serverCommand, debug |-> serverCommand])

\* the then-callback of showInputBox
onEntryPoint(m, entryPoint, env) ==
  LET m1 == [m EXCEPT !.r.pending = "none", !.r.answer = entryPoint] IN
  IF entryPoint.kind = "undefined" \/ entryPoint.value = <<>> THEN m1
  ELSE IF variant = "lean"
       THEN LET serverCommand ==
                  [command |-> config.standaloneBinary,
                   args |-> << Str("--canister-main"), entryPoint.value >>
                            \o split(config.standaloneArguments, SP)]
            IN launchClient(m1, [run |-> serverCommand, debug |-> serverCommand])
       ELSE LET pkg == vesselArgs(env)
                serverCommand ==
                  [command |-> config.standaloneBinary,
                   args |-> (<< Str("--canister-main"), entryPoint.value >>
                             \o pkg)
                            \o split(config.standaloneArguments, SP)]
            IN launchClient([m1 EXCEPT !.r.vessel = env, !.r.pkgArgs = pkg],
                            [run |-> serverCommand, debug |-> serverCommand])

\* the then-callback of showQuickPick that falls back to the first canister
\* when the pick is dismissed
onQuickPick_firstOnDismiss(m, c, env) ==
  LET m1 == [m EXCEPT !.r.pending = "none", !.r.answer = c] IN
  IF c.kind = "undefined" \/ c.value = <<>>
  THEN IF m.r.dfxConfig.canisters = <<>> THEN m1
       ELSE start(m1, m.r.dfxConfig, m.r.dfxConfig.canisters[1].name, env)
  ELSE start(m1, m.r.dfxConfig, c.value, env)

\* the then-callback of showQuickPick
onQuickPick(m, c, env) ==
  LET m1 == [m EXCEPT !.r.pending = "none", !.r.answer = c] IN
  IF c.kind = "undefined" \/ c.value = <<>> THEN m1
  ELSE start(m1, m.r.dfxConfig, c.value, env)

\* deactivate()
deactivate(m) == IF m.client = 0 THEN m ELSE stop(m, m.client)

\* ----------------------------------------------------------------- actions
\* the inputs start(canister) reads: the dfx lookup (lean variant) or the
\* disk state interface staging meets (extended variant)
LaunchEnvs(lookups, idlEnvs) ==
  { [lookup |-> l, idl |-> e] :
      l \in IF variant = "lean" THEN lookups ELSE {"unused"},
      e \in IF variant = "lean" THEN {NoIdlEnv} ELSE idlEnvs }

\* the inputs a start action reads from the editor and the disk: dfx.json,
\* then the active document (standalone path) or the inputs of start
StartEnvs(files, documents, launchEnvs) ==
  UNION { IF isDfxProject(j).kind = "null"
          THEN { [dfxJson |-> j, currentDocument |-> d, lookup |-> "unused",
                  idl |-> NoIdlEnv] : d \in documents }
          ELSE { [dfxJson |-> j, currentDocument |-> Undefined,
                  lookup |-> e.lookup, idl |-> e.idl] : e \in launchEnvs } :
          j \in IF wsf THEN files
                       ELSE {[kind |-> "missing", canisters |-> <<>>]} }

\* the handler ran synchronously to its end: store what it left
Commit(rs, r, m, sync) ==
  /\ client' = m.client
  /\ clients' = m.clients
  /\ res' = [rs EXCEPT ![r] =
               IF sync THEN [m.r EXCEPT !.threw = m.threw]
                       ELSE [m.r EXCEPT !.rejected = m.threw]]
  /\ UNCHANGED <<variant, config, wsf, deactivated>>

\* the editor activates the extension
ActivateIn(envs) ==
  /\ res = <<>>
  /\ ~deactivated
  /\ \E env \in envs :
       Commit(<<NewRes(env.dfxJson)>>, 1,
              activate(Machine(NewRes(env.dfxJson)), env), TRUE)

\* the user runs the command motoko.startService (extended variant only)
StartServiceIn(envs) ==
  /\ variant = "extended"
  /\ res # <<>>
  /\ Len(res) < MaxInvocations
  /\ ~deactivated
  /\ \E env \in envs :
       Commit(Append(res, NewRes(env.dfxJson)), Len(res) + 1,
              startServer(Machine(NewRes(env.dfxJson)), env), TRUE)

\* the user answers or dismisses the quick pick of run r
AnswerQuickPickIn(envs) ==
  /\ ~deactivated
  /\ \E r \in 1..Len(res) :
       /\ res[r].pending = "quickPick"
       /\ \E c \in {Undefined} \cup
                   { Some(res[r].dfxConfig.canisters[i].name) :
                       i \in 1..Len(res[r].dfxConfig.canisters) } :
          \E env \in envs :
            Commit(res, r, onQuickPick(Machine(res[r]), c, env), FALSE)

\* the user answers or dismisses the entry-point input box of run r
AnswerInputBoxIn(entryPoints, envs) ==
  /\ ~deactivated
  /\ \E r \in 1..Len(res) :
       /\ res[r].pending = "inputBox"
       /\ \E entryPoint \in entryPoints :
          \E env \in IF variant = "lean" THEN {NoVessel} ELSE envs :
            Commit(res, r, onEntryPoint(Machine(res[r]), entryPoint, env), FALSE)

\* ---- one run of the start action, over every input
Init ==
  /\ variant \in {"lean", "extended"}
  /\ config \in Configs
  /\ wsf \in BOOLEAN
  /\ client = 0
  /\ clients = <<>>
  /\ res = <<>>
  /\ deactivated = FALSE

Activate ==
  ActivateIn(StartEnvs(DfxJsonFiles, Documents, LaunchEnvs(Lookups, IdlEnvs)))

AnswerQuickPick == AnswerQuickPickIn(LaunchEnvs(Lookups, IdlEnvs))

AnswerInputBox == AnswerInputBoxIn(EntryPoints, VesselEnvs)

Next ==
  \/ Activate
  \/ AnswerQuickPick
  \/ AnswerInputBox

Spec == Init /\ [][Next]_vars

\* ---- activation, restarts and shutdown, over representative inputs
\* dfx.json: absent, without canisters, with one canister, with two
LifecycleFiles ==
  { j \in DfxJsonFiles :
      \/ j.kind \in {"missing", "noCanisters"}
      \/ j.kind = "manifest" /\ Len(j.canisters) \in {1, 2} }

\* staging: no canister manifest, or one whose candid file is missing
LifecycleIdlEnvs ==
  { e \in IdlEnvs :
      /\ e.dir = "exists"
      /\ \/ e.manifest = "missing"
         \/ e.manifest = "manifest" /\ Len(e.entries) = 1 /\ e.candid = {} }

LifecycleStartEnvs ==
  StartEnvs(LifecycleFiles, {Some(Str("/tmp/foo.mo"))},
            LaunchEnvs({"found", "notFound"}, LifecycleIdlEnvs))

InitLifecycle ==
  /\ variant \in {"lean", "extended"}
  /\ config \in { c \in Configs : /\ c.canister \in {<<>>, Str("main")}
                                  /\ c.standaloneArguments = <<"--a", SP, "--b">> }
  /\ wsf = TRUE
  /\ client = 0
  /\ clients = <<>>
  /\ res = <<>>
  /\ deactivated = FALSE

Startup == ActivateIn(LifecycleStartEnvs)

StartService == StartServiceIn(LifecycleStartEnvs)

PickCanister ==
  AnswerQuickPickIn(LaunchEnvs({"found", "notFound"}, LifecycleIdlEnvs))

EnterEntryPoint ==
  AnswerInputBoxIn({Undefined, Some(<<>>), Some(Str("/tmp/foo.mo"))}, {NoVessel})

\* the editor shuts the extension down
Deactivate ==
  /\ ~deactivated
  /\ res # <<>>
  /\ deactivated' = TRUE
  /\ clients' = deactivate(Machine(NewRes(Null))).clients
  /\ UNCHANGED <<variant, config, wsf, client, res>>

NextLifecycle ==
  \/ Startup
  \/ StartService
  \/ PickCanister
  \/ EnterEntryPoint
  \/ Deactivate

Lifecycle == InitLifecycle /\ [][NextLifecycle]_vars

\* ---- the standalone path over every short standaloneArguments string
\* the symbols a standaloneArguments string is made of
ArgSymbols == {"--a", "--b", "\"x", "y\"", SP}

ArgStrings == UNION { [1..n -> ArgSymbols] : n \in 0..MaxArgLen }

InitSplit ==
  /\ variant \in {"lean", "extended"}
  /\ config \in { [canister |-> <<>>, standaloneBinary |-> Str("mo-ide"),
                   standaloneArguments |-> a, dfx |-> Str("dfx")] :
                    a \in ArgStrings }
  /\ wsf = FALSE
  /\ client = 0
  /\ clients = <<>>
  /\ res = <<>>
  /\ deactivated = FALSE

NextSplit ==
  \/ Activate
  \/ AnswerInputBox

SplitSpec == InitSplit /\ [][NextSplit]_vars

\* ------------------------------------------------------- claim vocabulary
Runs == 1..Len(res)

\* the run found a well-formed manifest with n targets
Manifest(r) == res[r].dfxConfig.kind = "object" /\ res[r].dfxConfig.hasCanisters

Targets(r) == res[r].dfxConfig.canisters

TargetNames(r) == { Targets(r)[i].name : i \in 1..Len(Targets(r)) }

\* the main-entry path dfx.json gives for a target name
MainOf(r, name) ==
  Targets(r)[CHOOSE i \in 1..Len(Targets(r)) : Targets(r)[i].name = name].main

\* run r handed launchClient exactly one LaunchSpec and it was built for
\* target name: ["_language-service", name] in the lean variant, arguments
\* beginning ["--canister-main", main of name] in the extended one
LaunchedFor(r, name) ==
  /\ Len(res[r].launched) = 1
  /\ Len(res[r].launchSpecs) = 1
  /\ LET args == res[r].launchSpecs[1].args IN
     IF variant = "lean"
     THEN args = << <<"_language-service">>, name >>
     ELSE /\ Len(args) >= 2
          /\ args[1] = <<"--canister-main">>
          /\ args[2] = MainOf(r, name)

\* an exception ended the run's start(canister) call
Aborted(r) == res[r].threw \/ res[r].rejected

\* ------------------------------------------------------------------ claims
\* C1: when dfx.json parses to a manifest with exactly one target and the
\* configured default canister is empty, launchDfxProject calls start for
\* that one target, never shows the quick pick, and (unless start itself
\* throws) launches exactly one client for that target.
C1_SingleTargetSelected ==
  \A r \in Runs :
    (Manifest(r) /\ Len(Targets(r)) = 1 /\ config.canister = <<>>) =>
      /\ res[r].quickPicks = 0
      /\ res[r].inputBoxes = 0
      /\ res[r].pending = "none"
      /\ res[r].starts = << Targets(r)[1].name >>
      /\ (~Aborted(r) => LaunchedFor(r, Targets(r)[1].name))
      /\ (Aborted(r) => res[r].launched = <<>>)

C1_Witness ==
  \E r \in Runs :
    /\ Manifest(r) /\ Len(Targets(r)) = 1 /\ config.canister = <<>>
    /\ LaunchedFor(r, Targets(r)[1].name)

\* C2: when the configured default canister is non-empty and is a key of the
\* manifest's canisters, launchDfxProject calls start for exactly that
\* target without prompting, however many targets the manifest has.
C2_ConfiguredTargetSelected ==
  \A r \in Runs :
    (Manifest(r) /\ config.canister # <<>>
       /\ config.canister \in TargetNames(r)) =>
      /\ res[r].quickPicks = 0
      /\ res[r].inputBoxes = 0
      /\ res[r].pending = "none"
      /\ res[r].starts = << config.canister >>
      /\ (~Aborted(r) => LaunchedFor(r, config.canister))
      /\ (Aborted(r) => res[r].launched = <<>>)

C2_Witness ==
  \E r \in Runs :
    /\ Manifest(r) /\ Len(Targets(r)) >= 3
    /\ config.canister # <<>> /\ config.canister \in TargetNames(r)
    /\ LaunchedFor(r, config.canister)

\* C3: for a manifest with more than one target and an empty configured
\* default, one resolution calls showQuickPick exactly once, and if the
\* selection is dismissed launchClient is never called for that resolution.
C3_QuickPickOnceAndDismissal ==
  \A r \in Runs :
    (Manifest(r) /\ Len(Targets(r)) > 1 /\ config.canister = <<>>) =>
      /\ res[r].quickPicks = 1
      /\ res[r].inputBoxes = 0
      /\ (res[r].pending = "quickPick" => res[r].launched = <<>>)
      /\ (res[r].pending = "none" /\ res[r].answer.kind = "undefined" =>
            /\ res[r].launched = <<>>
            /\ res[r].launchSpecs = <<>>
            /\ res[r].starts = <<>>)

C3_Witness ==
  \E r \in Runs :
    /\ Manifest(r) /\ Len(Targets(r)) > 1 /\ config.canister = <<>>
    /\ res[r].pending = "none" /\ res[r].answer.kind = "undefined"
    /\ res[r].quickPicks = 1

\* C4: when dfx.json is missing, unreadable or malformed JSON, or there is no
\* workspace folder, isDfxProject returns null, the start action shows the
\* entry-point input box, does not call launchDfxProject, and no exception
\* leaves the start action.
C4_NoManifestFallsBack ==
  \A r \in Runs :
    (~wsf \/ res[r].dfxJsonSeen.kind \in {"missing", "unreadable", "malformed"}) =>
      /\ res[r].dfxConfig.kind = "null"
      /\ res[r].inputBoxes = 1
      /\ res[r].quickPicks = 0
      /\ ~res[r].launchDfx
      /\ res[r].starts = <<>>
      /\ ~res[r].threw

C4_Witness ==
  \E r \in Runs :
    /\ wsf /\ res[r].dfxJsonSeen.kind = "malformed"
    /\ res[r].inputBoxes = 1 /\ res[r].pending = "inputBox"

\* the strings of t joined by single spaces
RECURSIVE Join(_)
Join(t) ==
  IF Len(t) = 0 THEN <<>>
  ELSE IF Len(t) = 1 THEN t[1]
  ELSE t[1] \o <<SP>> \o Join(Tail(t))

\* t is s cut at every single space: no piece holds a space, and the pieces
\* joined by spaces give s back
IsSpaceSplit(t, s) ==
  /\ Len(t) >= 1
  /\ \A i \in 1..Len(t) : \A j \in 1..Len(t[i]) : t[i][j] # SP
  /\ Join(t) = s

\* args ends with the sequence tail
EndsWith(args, tail) ==
  /\ Len(args) >= Len(tail)
  /\ SubSeq(args, Len(args) - Len(tail) + 1, Len(args)) = tail

\* interface staging met no failure: the scratch directory is there or was
\* created, the canister manifest parsed, and every artifact was copied
StagingSucceeded(env) ==
  /\ env.dir \in {"exists", "creatable"}
  /\ env.manifest = "manifest"
  /\ \A i \in 1..Len(env.entries) : env.entries[i].candid_path \in env.candid

\* one of the failures of interface staging the specification lists: the
\* scratch directory cannot be created, canister_manifest.json is missing or
\* unparsable, or an artifact named by the manifest is missing
StagingFailed(env) ==
  \/ env.dir = "denied"
  \/ env.manifest \in {"missing", "malformed"}
  \/ /\ env.manifest = "manifest"
     /\ \E i \in 1..Len(env.entries) : env.entries[i].candid_path \notin env.candid

\* C5 (as claimed): every LaunchSpec produced by launchDfxProject ends with
\* the configured extra arguments (standaloneArguments split on spaces).
C5_EndsWithExtraArguments ==
  \A r \in Runs :
    res[r].launchDfx =>
      \A i \in 1..Len(res[r].launchSpecs) :
        \E extra \in {split(config.standaloneArguments, SP)} :
          EndsWith(res[r].launchSpecs[i].args, extra)

\* C5 (amended): in the manifest-present path the LaunchSpec arguments are
\* exactly "--canister-main" and the target's main-entry path, followed,
\* when staging succeeded, by "--actor-idl", the scratch directory and one
\* "--actor-alias" triple per manifest entry (extended variant), or exactly
\* "_language-service" and the target name (lean variant); the configured
\* extra arguments are not appended.
C5_DfxArgumentsWithoutExtras ==
  \A r \in Runs :
    (res[r].launchDfx /\ res[r].launchSpecs # <<>>) =>
      /\ Len(res[r].launchSpecs) = 1
      /\ Len(res[r].starts) = 1
      /\ LET args == res[r].launchSpecs[1].args
             name == res[r].starts[1]
             env == res[r].idlEnv
         IN IF variant = "lean"
            THEN args = << <<"_language-service">>, name >>
            ELSE /\ name \in TargetNames(r)
                 /\ SubSeq(args, 1, 2) = << <<"--canister-main">>, MainOf(r, name) >>
                 /\ IF StagingSucceeded(env)
                    THEN /\ Len(args) = 4 + 3 * Len(env.entries)
                         /\ args[3] = <<"--actor-idl">>
                         /\ args[4] = IdlPath
                         /\ \A k \in 1..Len(env.entries) :
                              SubSeq(args, 3 * k + 2, 3 * k + 4) =
                                << <<"--actor-alias">>, env.entries[k].alias,
                                   env.entries[k].canister_id >>
                    ELSE Len(args) = 2

C5_Witness ==
  \E r \in Runs :
    /\ variant = "extended"
    /\ res[r].launchDfx /\ Len(res[r].launchSpecs) = 1
    /\ StagingSucceeded(res[r].idlEnv) /\ Len(res[r].idlEnv.entries) >= 2
    /\ config.standaloneArguments # <<>>

\* C6 (as claimed): in the extended variant a failure anywhere in interface
\* staging never aborts the launch: for a selected target that exists in
\* dfx.json, launchClient is still called, with exactly
\* ["--canister-main", main] and no --actor-idl / --actor-alias flags.
C6_StagingFailureNeverAborts ==
  \A r \in Runs :
    (/\ variant = "extended"
     /\ Manifest(r)
     /\ res[r].starts # <<>>
     /\ res[r].starts[1] \in TargetNames(r)
     /\ StagingFailed(res[r].idlEnv)) =>
      /\ ~Aborted(r)
      /\ Len(res[r].launchSpecs) = 1
      /\ res[r].launchSpecs[1].args =
           << <<"--canister-main">>, MainOf(r, res[r].starts[1]) >>

\* C7 (as claimed): in the extended variant no new client is ever started
\* while a previously started client has not had stop() called on it: every
\* client but the newest has been stopped.
C7_PriorClientStoppedFirst ==
  variant = "extended" =>
    \A i \in 1..Len(clients) : i < Len(clients) => clients[i].stops >= 1

\* the entry-point prompt of run r was accepted with a non-empty path
Accepted(r) ==
  /\ res[r].inputBoxes = 1
  /\ res[r].pending = "none"
  /\ res[r].answer.kind = "value"
  /\ res[r].answer.value # <<>>

\* vessel.json is absent, or `vessel sources` is not installed or exits nonzero
VesselFailed(env) == ~env.json \/ env.cmd \in {"notInstalled", "nonzero"}

\* C8: in the manifest-absent path, when the entry-point prompt is accepted
\* with a non-empty path p, launchClient is called exactly once with
\* executable config.standaloneBinary and arguments "--canister-main", p,
\* then the package-source arguments (the output of `vessel sources` cut at
\* spaces; none in the lean variant), then standaloneArguments cut at spaces.
C8_StandaloneLaunchSpec ==
  \A r \in Runs :
    Accepted(r) =>
      /\ ~res[r].rejected
      /\ Len(res[r].launched) = 1
      /\ Len(res[r].launchSpecs) = 1
      /\ LET spec == res[r].launchSpecs[1]
             args == spec.args
             env == res[r].vessel
             n == IF variant = "extended" /\ wsf /\ env.json /\ env.cmd = "ok"
                  THEN Len(res[r].pkgArgs) ELSE 0
         IN /\ spec.command = config.standaloneBinary
            /\ Len(args) >= 3 + n
            /\ SubSeq(args, 1, 2) = << <<"--canister-main">>, res[r].answer.value >>
            /\ n > 0 => IsSpaceSplit(SubSeq(args, 3, 2 + n), env.out)
            /\ IsSpaceSplit(SubSeq(args, 3 + n, Len(args)),
                            config.standaloneArguments)

C8_Witness ==
  \E r \in Runs :
    /\ Accepted(r)
    /\ variant = "extended"
    /\ res[r].vessel.cmd = "ok"
    /\ Len(res[r].launchSpecs) = 1
    /\ Len(res[r].launchSpecs[1].args) = 7
    /\ res[r].answer = res[r].defaultValue

\* C9: in the extended variant vesselArgs never aborts the launch: when
\* vessel.json is absent, or the `vessel sources` command is not installed or
\* exits nonzero, the package-source arguments are empty and the launch
\* proceeds with "--canister-main", entryPoint and the extra arguments.
C9_VesselFailureDegrades ==
  \A r \in Runs :
    (variant = "extended" /\ Accepted(r)) =>
      /\ ~res[r].rejected
      /\ Len(res[r].launchSpecs) = 1
      /\ VesselFailed(res[r].vessel) =>
           LET args == res[r].launchSpecs[1].args IN
           /\ res[r].pkgArgs = <<>>
           /\ Len(args) >= 3
           /\ SubSeq(args, 1, 2) = << <<"--canister-main">>, res[r].answer.value >>
           /\ IsSpaceSplit(SubSeq(args, 3, Len(args)), config.standaloneArguments)

C9_Witness ==
  \E r \in Runs :
    /\ variant = "extended" /\ Accepted(r)
    /\ res[r].vessel.json /\ res[r].vessel.cmd = "notInstalled"
    /\ Len(res[r].launchSpecs) = 1

\* C10: in the lean variant, when the lookup of the configured dfx fails and
\* the configured value is not an existing file, an error message is shown,
\* an error is raised (out of the start action on the direct path, out of the
\* then-callback on the quick-pick path) and launchClient is not called; when
\* the lookup fails but the configured path exists, that path is the
\* executable and no error is shown.
C10_DfxLookupFailure ==
  \A r \in Runs :
    (variant = "lean" /\ res[r].starts # <<>>) =>
      /\ res[r].lookup = "notFound" =>
           /\ res[r].errorMessages = 1
           /\ res[r].launched = <<>>
           /\ res[r].launchSpecs = <<>>
           /\ (res[r].quickPicks = 0 => res[r].threw)
           /\ (res[r].quickPicks = 1 => res[r].rejected)
      /\ res[r].lookup = "existsOnly" =>
           /\ res[r].errorMessages = 0
           /\ ~Aborted(r)
           /\ Len(res[r].launchSpecs) = 1
           /\ res[r].launchSpecs[1].command = config.dfx

C10_Witness ==
  \E r \in Runs :
    /\ variant = "lean"
    /\ res[r].quickPicks = 1 /\ res[r].starts # <<>>
    /\ res[r].lookup = "notFound"
    /\ res[r].rejected /\ res[r].errorMessages = 1

\* the extra arguments of the standalone LaunchSpec of run r: what follows
\* "--canister-main", the entry point and the package-source arguments
ExtraArgs(r) ==
  LET args == res[r].launchSpecs[1].args IN
  SubSeq(args, 3 + Len(res[r].pkgArgs), Len(args))

\* s is one or more non-empty tokens separated by single spaces
SingleSpaced(s) ==
  /\ s # <<>>
  /\ s[1] # SP
  /\ s[Len(s)] # SP
  /\ \A i \in 1..(Len(s) - 1) : ~(s[i] = SP /\ s[i + 1] = SP)

Spaces(s) == Cardinality({ i \in 1..Len(s) : s[i] = SP })

\* C11: the extra-arguments string is split on single spaces with no
\* quoting: "--a --b" yields exactly ["--a", "--b"]; a string of k non-empty
\* tokens separated by single spaces yields exactly those k arguments in
\* order; a quoted token containing a space is broken into separate arguments.
C11_SplitOnSingleSpaces ==
  \A r \in Runs :
    (Accepted(r) /\ Len(res[r].launchSpecs) = 1) =>
      LET s == config.standaloneArguments
          extra == ExtraArgs(r)
      IN /\ s = <<"--a", SP, "--b">> => extra = << <<"--a">>, <<"--b">> >>
         /\ SingleSpaced(s) =>
              /\ Len(extra) = Spaces(s) + 1
              /\ \A i \in 1..Len(extra) : extra[i] # <<>>
              /\ Join(extra) = s
         /\ s = <<"\"x", SP, "y\"">> => extra = << <<"\"x">>, <<"y\"">> >>
         /\ \A i \in 1..Len(extra) : \A j \in 1..Len(extra[i]) : extra[i][j] # SP

C11_Witness ==
  \E r \in Runs :
    /\ Accepted(r) /\ Len(res[r].launchSpecs) = 1
    /\ config.standaloneArguments = <<"\"x", SP, "y\"">>
    /\ Len(ExtraArgs(r)) = 2

\* dfx.json = {"canisters":{"main":{"main":"src/main.mo"}}} and no
\* configured default
Scenario1(r) ==
  /\ wsf
  /\ res[r].dfxJsonSeen =
       [kind |-> "manifest",
        canisters |-> << [name |-> <<"main">>, main |-> <<"src/main.mo">>] >>]
  /\ config.canister = <<>>

\* C12 (as claimed): in scenario 1 no prompt is shown and exactly one client
\* is launched: in the lean variant (when the dfx lookup yields a path) with
\* that path as executable and arguments exactly ["_language-service",
\* "main"]; in the extended variant with executable config.standaloneBinary
\* and arguments beginning ["--canister-main", "src/main.mo"].
C12_Scenario1LaunchesOneClient ==
  \A r \in Runs :
    Scenario1(r) =>
      /\ res[r].quickPicks = 0
      /\ res[r].inputBoxes = 0
      /\ (variant = "lean" /\ res[r].lookup # "notFound") =>
           /\ Len(res[r].launched) = 1
           /\ Len(res[r].launchSpecs) = 1
           /\ res[r].launchSpecs[1].command =
                (IF res[r].lookup = "found" THEN WhichPath ELSE config.dfx)
           /\ res[r].launchSpecs[1].args = << <<"_language-service">>, <<"main">> >>
      /\ variant = "extended" =>
           /\ Len(res[r].launched) = 1
           /\ Len(res[r].launchSpecs) = 1
           /\ res[r].launchSpecs[1].command = config.standaloneBinary
           /\ SubSeq(res[r].launchSpecs[1].args, 1, 2) =
                << <<"--canister-main">>, <<"src/main.mo">> >>

\* the entry-point prompt of run r was dismissed without input
Dismissed(r) ==
  /\ res[r].inputBoxes = 1
  /\ res[r].pending = "none"
  /\ \/ res[r].answer.kind = "undefined"
     \/ res[r].answer.kind = "value" /\ res[r].answer.value = <<>>

\* run r went through detection and resolution, and launched where the
\* resolution came to a launch
FullSequence(r) ==
  /\ res[r].dfxConfig.kind = "null" =>
       /\ res[r].inputBoxes = 1 /\ ~res[r].launchDfx
       /\ Accepted(r) => Len(res[r].launched) = 1
  /\ res[r].dfxConfig.kind = "object" =>
       /\ res[r].launchDfx /\ res[r].inputBoxes = 0
       /\ (res[r].starts # <<>> /\ ~Aborted(r)) => Len(res[r].launched) = 1

\* C13: in the manifest-absent path, when the entry-point input box is
\* dismissed without input (undefined or the empty string), launchClient is
\* not called, no error notification is shown and no LaunchSpec reaches the
\* launcher; a later run of the start action still goes through the full
\* detect, resolve, launch sequence.
C13_DismissedPromptAbortsSilently ==
  \A r \in Runs :
    Dismissed(r) =>
      /\ res[r].launched = <<>>
      /\ res[r].launchSpecs = <<>>
      /\ res[r].errorMessages = 0
      /\ ~Aborted(r)
      /\ \A later \in Runs : later > r => FullSequence(later)

C13_Witness ==
  \E r \in Runs : \E later \in Runs :
    /\ Dismissed(r) /\ res[r].answer.kind = "value"
    /\ later > r
    /\ res[later].stoppedPrior = 0
    /\ Len(res[later].launched) = 1

\* the clients that were started and have not had stop() called
Running == { i \in 1..Len(clients) : clients[i].stops = 0 }

\* C14 (as claimed): in the extended variant, under every interleaving of
\* motoko.startService invocations and prompt responses, at most one
\* language client is running (started and not yet stopped) at any time.
C14_AtMostOneClientRunning ==
  variant = "extended" => Cardinality(Running) <= 1

\* C15 (as claimed): deactivate does nothing when no client was ever
\* launched and otherwise calls stop() on the current client; after
\* deactivate every client that was ever started has had stop() called.
C15_AllStoppedAfterDeactivate ==
  deactivated =>
    /\ client = 0 => clients = <<>>
    /\ client # 0 => clients[client].stops >= 1
    /\ Running = {}

\* C16: the manifest is read again on every run of the start action: the
\* run's choice of path (manifest-present or standalone) and of target
\* depends only on dfx.json as it is when that run starts.
C16_ManifestReadEveryRun ==
  \A r \in Runs :
    LET file == res[r].dfxJsonSeen IN
    /\ file.kind \in {"missing", "unreadable", "malformed", "null"} =>
         /\ res[r].dfxConfig.kind = "null"
         /\ res[r].inputBoxes = 1
         /\ ~res[r].launchDfx
         /\ res[r].starts = <<>>
    /\ file.kind \in {"noCanisters", "manifest"} =>
         /\ res[r].dfxConfig.kind = "object"
         /\ res[r].dfxConfig.hasCanisters = (file.kind = "manifest")
         /\ res[r].dfxConfig.canisters = file.canisters
         /\ res[r].launchDfx
         /\ res[r].inputBoxes = 0
    /\ file.kind = "manifest" =>
         /\ config.canister # <<>> => res[r].starts = << config.canister >>
         /\ (config.canister = <<>> /\ Len(file.canisters) = 1) =>
              res[r].starts = << file.canisters[1].name >>
         /\ (config.canister = <<>> /\ Len(file.canisters) # 1) =>
              /\ res[r].quickPicks = 1
              /\ \A i \in 1..Len(res[r].starts) :
                   \E k \in 1..Len(file.canisters) :
                     res[r].starts[i] = file.canisters[k].name

C16_Witness ==
  \E r \in Runs : \E later \in Runs :
    /\ later > r
    /\ res[r].dfxJsonSeen.kind = "manifest" /\ Len(res[r].dfxJsonSeen.canisters) = 2
    /\ res[r].launchDfx
    /\ res[later].dfxJsonSeen.kind = "missing"
    /\ res[later].inputBoxes = 1

\* interface staging of run r succeeded and its LaunchSpec was handed over
Staged(r) ==
  /\ variant = "extended"
  /\ StagingSucceeded(res[r].idlEnv)
  /\ Len(res[r].launchSpecs) = 1

\* the enrichment arguments of run r: what follows "--canister-main", main
Enrichment(r) ==
  LET args == res[r].launchSpecs[1].args IN SubSeq(args, 3, Len(args))

\* the enrichment arguments are "--actor-idl", the scratch directory, then
\* per manifest entry, in order, "--actor-alias", alias, canister_id
EnrichmentExact(r) ==
  LET entries == res[r].idlEnv.entries
      e == Enrichment(r)
  IN /\ Len(e) = 2 + 3 * Len(entries)
     /\ e[1] = <<"--actor-idl">>
     /\ e[2] = IdlPath
     /\ \A k \in 1..Len(entries) :
          /\ e[3 * k] = <<"--actor-alias">>
          /\ e[3 * k + 1] = entries[k].alias
          /\ e[3 * k + 2] = entries[k].canister_id
     /\ Len(res[r].copied) = Len(entries)

\* C17 (as claimed): when staging succeeds for a manifest with n entries the
\* enrichment arguments are exactly "--actor-idl", the scratch directory and
\* one "--actor-alias", alias, identifier triple per entry (2 + 3n
\* arguments), and each entry's artifact is staged in the scratch directory
\* in a file named by that same identifier.
C17_StagedFileNamedByIdentifier ==
  \A r \in Runs :
    Staged(r) =>
      /\ EnrichmentExact(r)
      /\ \A k \in 1..Len(res[r].idlEnv.entries) :
           /\ res[r].copied[k].from = res[r].idlEnv.entries[k].candid_path
           /\ res[r].copied[k].file =
                (IdlPath \o <<"/">>) \o (Enrichment(r)[3 * k + 2] \o <<".did">>)

\* C17 (amended): the arguments are as claimed, the identifier of each triple
\* being the entry's whole canister_id; the artifact is staged in the scratch
\* directory in a file named by the canister_id without its first three
\* characters (the "ic:" prefix), with the extension ".did".
C17_StagedFileNamedByIdWithoutPrefix ==
  \A r \in Runs :
    Staged(r) =>
      /\ EnrichmentExact(r)
      /\ \A k \in 1..Len(res[r].idlEnv.entries) :
           LET id == Enrichment(r)[3 * k + 2] IN
           /\ res[r].copied[k].from = res[r].idlEnv.entries[k].candid_path
           /\ res[r].copied[k].file =
                (IdlPath \o <<"/">>) \o (SubSeq(id, 4, Len(id)) \o <<".did">>)

C17_Witness ==
  \E r \in Runs :
    /\ Staged(r)
    /\ Len(res[r].idlEnv.entries) = 2
    /\ Len(res[r].copied) = 2
    /\ Len(Enrichment(r)) = 8

\* a LaunchSpec of run r is built for some key of the manifest's canisters
BuiltForTarget(r, spec) ==
  \E name \in TargetNames(r) :
    IF variant = "lean"
    THEN spec.args = << <<"_language-service">>, name >>
    ELSE /\ Len(spec.args) >= 2
         /\ spec.args[1] = <<"--canister-main">>
         /\ spec.args[2] = MainOf(r, name)

\* C18: whenever a manifest is found, every LaunchSpec handed to launchClient
\* was built for a target that is a key of the manifest's canisters mapping,
\* whatever the configured default canister name is.
C18_LaunchSpecForManifestKey ==
  \A r \in Runs :
    Manifest(r) =>
      \A i \in 1..Len(res[r].launchSpecs) :
        BuiltForTarget(r, res[r].launchSpecs[i])

\* C19: no LaunchSpec handed to launchClient contains an empty string as an
\* argument; in particular, when standaloneArguments is the empty string the
\* manifest-absent LaunchSpec's arguments are exactly "--canister-main", the
\* entry point, then the package-source arguments, with nothing appended.
C19_NoEmptyArgument ==
  \A r \in Runs :
    /\ \A i \in 1..Len(res[r].launchSpecs) :
         \A k \in 1..Len(res[r].launchSpecs[i].args) :
           res[r].launchSpecs[i].args[k] # <<>>
    /\ (Accepted(r) /\ config.standaloneArguments = <<>>) =>
         /\ Len(res[r].launchSpecs) = 1
         /\ res[r].launchSpecs[1].args =
              << <<"--canister-main">>, res[r].answer.value >> \o res[r].pkgArgs

\* C20: a dfx.json that parses as JSON but is not a well-formed manifest (an
\* object without a canisters mapping, or the value null) never makes the
\* start action raise an exception to its caller.  The throw of getDfx
\* after a failed lookup (C10) has another cause and is not counted.
C20_IllFormedManifestNeverRaises ==
  \A r \in Runs :
    /\ res[r].dfxJsonSeen.kind \in {"null", "noCanisters"}
    /\ res[r].lookup \in {"unused", "found"}
    => ~Aborted(r)

====
